---- MODULE Spec2Model ----
(***************************************************************************)
(* Clothing Store API (src/main.py, src/schemas.py): two document          *)
(* collections (product, banner) behind FastAPI handlers.  Every handler   *)
(* is an operator computing the HTTP response (and the new collection      *)
(* contents) from the request and the current store; the actions apply     *)
(* the handlers to requests drawn from bounded sets.                       *)
(*                                                                         *)
(* Values.  A stored document is a function from field names to wrapped    *)
(* values: a field is absent (not in DOMAIN), null (NULL) or holds a       *)
(* value (V(x)).  Text that the code inspects character by character       *)
(* (title, q) is a sequence of one-character strings; other text is an     *)
(* opaque string.  Numbers are integers; float(x) keeps the numeric value  *)
(* and raises on None.                                                     *)
(***************************************************************************)
EXTENDS Integers, Sequences, FiniteSets, TLC

VARIABLES
    db,        \* "up" | "none": the module-level handle imported from database
    banner,    \* db["banner"]: sequence of documents in insertion order
    product,   \* db["product"]: sequence of documents in insertion order
    last,      \* the last completed request: operation, input, response
    seeded,    \* history: number of seed requests that have returned 200 (capped)
    input,     \* the request or stored document under test (NULL in Spec)
    workers    \* in-flight /api/seed requests (position and locals of each)

vars == <<db, banner, product, last, seeded, input, workers>>

----------------------------------------------------------------------------
(* Bounds of the model *)

MaxProducts == 3   \* create_product is not offered beyond this many products
MaxBanners == 1    \* create_banner is not offered beyond this many banners
NumWorkers == 2    \* concurrent /api/seed requests in SpecConc
MaxSeeded == 2     \* cap of the history counter

(* Program constants *)

LimitDefault == 24
LimitMin == 1
LimitMax == 100

----------------------------------------------------------------------------
(* Python values *)

NULL == [null |-> TRUE]
V(x) == [null |-> FALSE, v |-> x]

\* dict.get(k, default)
Get(doc, k, default) == IF k \in DOMAIN doc THEN doc[k] ELSE default

\* str(ObjectId): the 24-digit hexadecimal text of the ObjectId n
Hex24(n) == [kind |-> "hex24", n |-> n]
\* any other text used as an identifier
Other(s) == [kind |-> "other", s |-> s]

\* bson.ObjectId(text): parses 24 hex digits, raises InvalidId otherwise
ObjectId(text) ==
    IF text.kind = "hex24" THEN [ok |-> TRUE, oid |-> text.n] ELSE [ok |-> FALSE]

\* str(doc.get("_id"))
StrId(doc) ==
    LET x == Get(doc, "_id", NULL) IN IF x.null THEN Other("None") ELSE Hex24(x.v)

\* bool(x) on None / a bool
PyBool(x) == IF x.null THEN FALSE ELSE x.v

\* str.lower on the letters that occur in the model's texts
LowerOf ==
    [A |-> "a", B |-> "b", C |-> "c", G |-> "g", H |-> "h", K |-> "k", S |-> "s", T |-> "t"]
Fold(c) == IF c \in DOMAIN LowerOf THEN LowerOf[c] ELSE c

\* re.search(pat, text, IGNORECASE) for patterns made of literal characters
\* and the metacharacter "." (any one character); this is what the store
\* evaluates for {"$regex": pat, "$options": "i"}
RegexSearch(pat, text) ==
    \E off \in 0..(Len(text) - Len(pat)) :
        \A i \in 1..Len(pat) : pat[i] = "." \/ Fold(pat[i]) = Fold(text[off + i])

\* text contains sub as a literal substring, ignoring case
ContainsCI(text, sub) ==
    \E off \in 0..(Len(text) - Len(sub)) :
        \A i \in 1..Len(sub) : Fold(sub[i]) = Fold(text[off + i])

Take(s, n) == SubSeq(s, 1, IF n < Len(s) THEN n ELSE Len(s))

----------------------------------------------------------------------------
(* Serialization, src/main.py:11-69 *)

OptionalFields ==
    {"description", "price", "images", "sizes", "in_stock", "is_trending",
     "is_new", "is_best_seller", "season", "on_sale", "sale_price"}

\* ProductOut(...) of serialize_product: the constructor arguments are
\* evaluated first (float(None) and iteration over None raise TypeError),
\* then pydantic validates the required str fields title and category.
serialize_product(doc) ==
    LET title == Get(doc, "title", NULL)
        price == Get(doc, "price", V(0))
        category == Get(doc, "category", NULL)
        images == Get(doc, "images", V(<<>>))
        sizes == Get(doc, "sizes", V(<<>>))
        sale == Get(doc, "sale_price", NULL)
    IN  IF price.null \/ images.null \/ sizes.null \/ title.null \/ category.null
        THEN [ok |-> FALSE]
        ELSE [ok |-> TRUE,
              out |-> [id |-> StrId(doc),
                       title |-> title.v,
                       description |-> Get(doc, "description", NULL),
                       price |-> price.v,
                       category |-> category.v,
                       images |-> images.v,
                       sizes |-> sizes.v,
                       in_stock |-> PyBool(Get(doc, "in_stock", V(TRUE))),
                       is_trending |-> PyBool(Get(doc, "is_trending", V(FALSE))),
                       is_new |-> PyBool(Get(doc, "is_new", V(FALSE))),
                       is_best_seller |-> PyBool(Get(doc, "is_best_seller", V(FALSE))),
                       season |-> Get(doc, "season", NULL),
                       on_sale |-> PyBool(Get(doc, "on_sale", V(FALSE))),
                       sale_price |-> sale]]

\* BannerOut(...) of serialize_banner: title and slug are required str
serialize_banner(doc) ==
    LET title == Get(doc, "title", NULL)
        slug == Get(doc, "slug", NULL)
    IN  IF title.null \/ slug.null
        THEN [ok |-> FALSE]
        ELSE [ok |-> TRUE,
              out |-> [id |-> StrId(doc),
                       title |-> title.v,
                       subtitle |-> Get(doc, "subtitle", NULL),
                       image |-> Get(doc, "image", NULL),
                       slug |-> slug.v]]

\* [serialize_product(d) for d in docs]: the outputs, or a raise
SerializeProducts(docs) ==
    IF \E i \in 1..Len(docs) : ~serialize_product(docs[i]).ok
    THEN [ok |-> FALSE]
    ELSE [ok |-> TRUE, out |-> [i \in 1..Len(docs) |-> serialize_product(docs[i]).out]]

\* [serialize_banner(d) for d in docs]: the outputs, or a raise
SerializeBanners(docs) ==
    IF \E i \in 1..Len(docs) : ~serialize_banner(docs[i]).ok
    THEN [ok |-> FALSE]
    ELSE [ok |-> TRUE, out |-> [i \in 1..Len(docs) |-> serialize_banner(docs[i]).out]]

----------------------------------------------------------------------------
(* Schemas, src/schemas.py *)

\* mutant of ProductDefaults: sizes defaults to the empty list
ProductDefaultsEmptySizes ==
    [description |-> NULL,
     images |-> V(<<>>),
     sizes |-> V(<<>>),
     in_stock |-> V(TRUE),
     is_trending |-> V(FALSE),
     is_new |-> V(FALSE),
     is_best_seller |-> V(FALSE),
     season |-> NULL,
     on_sale |-> V(FALSE),
     sale_price |-> NULL]

\* the declared defaults of Product's optional fields
ProductDefaults ==
    [description |-> NULL,
     images |-> V(<<>>),
     sizes |-> V(<<"S", "M", "L", "XL">>),
     in_stock |-> V(TRUE),
     is_trending |-> V(FALSE),
     is_new |-> V(FALSE),
     is_best_seller |-> V(FALSE),
     season |-> NULL,
     on_sale |-> V(FALSE),
     sale_price |-> NULL]

\* fields declared Optional[...]: null is a valid value
ProductNullable == {"description", "season", "sale_price"}

ProductRequired == {"title", "price", "category"}

\* Product(**payload): required fields present, no null outside Optional
\* fields, price >= 0, sale_price >= 0; absent fields take their defaults
Product(payload) ==
    LET fields == ProductRequired \cup DOMAIN ProductDefaults
        given == DOMAIN payload \cap fields
        valid ==
            /\ ProductRequired \subseteq given
            /\ \A k \in given \ ProductNullable : ~payload[k].null
            /\ payload["price"].v >= 0
            /\ "sale_price" \in given /\ ~payload["sale_price"].null
                   => payload["sale_price"].v >= 0
    IN  IF valid
        THEN [ok |-> TRUE,
              rec |-> [k \in fields |->
                          IF k \in given THEN payload[k] ELSE ProductDefaults[k]]]
        ELSE [ok |-> FALSE]

BannerDefaults == [subtitle |-> NULL, image |-> NULL]

BannerRequired == {"title", "slug"}

\* Banner(**payload)
Banner(payload) ==
    LET fields == BannerRequired \cup DOMAIN BannerDefaults
        given == DOMAIN payload \cap fields
        valid ==
            /\ BannerRequired \subseteq given
            /\ \A k \in BannerRequired : ~payload[k].null
    IN  IF valid
        THEN [ok |-> TRUE,
              rec |-> [k \in fields |->
                          IF k \in given THEN payload[k] ELSE BannerDefaults[k]]]
        ELSE [ok |-> FALSE]

----------------------------------------------------------------------------
(* The document store *)

\* the ObjectId the store assigns to the next document of a collection
NewId(coll) == Len(coll) + 1

\* collection.insert_one(doc): the collection with doc appended under a new _id
InsertOne(coll, doc) ==
    Append(coll, [k \in DOMAIN doc \cup {"_id"} |->
                     IF k = "_id" THEN V(NewId(coll)) ELSE doc[k]])

\* one condition of a query filter against one document: equality needs the
\* field to be present with that value; $regex needs a string that matches
CondHolds(doc, k, cond) ==
    /\ k \in DOMAIN doc
    /\ IF cond.op = "eq"
       THEN doc[k] = V(cond.val)
       ELSE ~doc[k].null /\ RegexSearch(cond.pat, doc[k].v)

\* collection.find(filt): the matching documents in storage order
Find(coll, filt) ==
    SelectSeq(coll, LAMBDA d : \A k \in DOMAIN filt : CondHolds(d, k, filt[k]))

\* collection.find_one({"_id": oid})
FindOne(coll, oid) ==
    LET hits == SelectSeq(coll, LAMBDA d : Get(d, "_id", NULL) = V(oid))
    IN  IF Len(hits) = 0 THEN NULL ELSE V(hits[1])

\* database.create_document(collection_name, data): StorageUnavailable
\* without a connection, else insert and return the new identifier's text.
\* fail = 1: the insert raises.
create_document(coll, rec, fail) ==
    IF db = "none" THEN [ok |-> FALSE, calls |-> 0, coll |-> coll]
    ELSE IF fail = 1 THEN [ok |-> FALSE, calls |-> 1, coll |-> coll]
    ELSE [ok |-> TRUE, calls |-> 1, coll |-> InsertOne(coll, rec),
          id |-> Hex24(NewId(coll))]

----------------------------------------------------------------------------
(* Seed data, src/main.py:168-243 *)

SeedBanners ==
    << [title |-> V("Mega Sale"),
        subtitle |-> V("Up to 60% OFF on top styles"),
        image |-> V("photo-1542291026-7eec264c27ff"),
        slug |-> V("mega-sale")],
       [title |-> V("New Collection 2025"),
        subtitle |-> V("Fresh arrivals for the new season"),
        image |-> V("photo-1520975922203-b5d0b0d75136"),
        slug |-> V("new-collection-2025")],
       [title |-> V("Limited Stock Available"),
        subtitle |-> V("Grab your favorites before they are gone"),
        image |-> V("photo-1512436991641-6745cdb1723f"),
        slug |-> V("limited-stock")] >>

SeedProducts ==
    << [title |-> V(<<"C", "l", "a", "s", "s", "i", "c", " ", "B", "l", "a", "c", "k", " ", "T", "e", "e">>),
        description |-> V("Premium cotton, perfect fit."),
        price |-> V(2499),
        category |-> V("Men"),
        images |-> V(<<"photo-1520975922203-b5d0b0d75136">>),
        sizes |-> V(<<"S", "M", "L", "XL">>),
        in_stock |-> V(TRUE),
        is_trending |-> V(TRUE),
        is_new |-> V(FALSE),
        is_best_seller |-> V(TRUE),
        season |-> V("Summer"),
        on_sale |-> V(TRUE),
        sale_price |-> V(1999)],
       [title |-> V(<<"G", "o", "l", "d", " ", "A", "c", "c", "e", "n", "t", " ", "H", "o", "o", "d", "i", "e">>),
        description |-> V("Cozy fleece with subtle gold detail."),
        price |-> V(4999),
        category |-> V("Women"),
        images |-> V(<<"photo-1519741497674-611481863552">>),
        sizes |-> V(<<"S", "M", "L", "XL">>),
        in_stock |-> V(TRUE),
        is_trending |-> V(TRUE),
        is_new |-> V(TRUE),
        is_best_seller |-> V(FALSE),
        season |-> V("Winter"),
        on_sale |-> V(FALSE)],
       [title |-> V(<<"K", "i", "d", "s", " ", "S", "u", "m", "m", "e", "r", " ", "S", "e", "t">>),
        description |-> V("Light and comfy two-piece."),
        price |-> V(2999),
        category |-> V("Kids"),
        images |-> V(<<"photo-1520975432204-8d8a9f9a9f3b">>),
        sizes |-> V(<<"S", "M", "L">>),
        in_stock |-> V(TRUE),
        is_trending |-> V(FALSE),
        is_new |-> V(TRUE),
        is_best_seller |-> V(FALSE),
        season |-> V("Summer"),
        on_sale |-> V(FALSE)] >>

----------------------------------------------------------------------------
(* Handlers, src/main.py:102-248.  Each returns the response (status, body), *)
(* the number of storage calls it made and the collections it leaves.       *)
(* fail = k > 0: the k-th storage call of the request raises.               *)

Resp(status, body, calls) ==
    [status |-> status, body |-> body, calls |-> calls,
     banner |-> banner, product |-> product]

\* mutant of get_banners: no "if db else []" guard, so the subscript of None
\* raises
get_bannersNoGuard(fail) ==
    IF db = "none" THEN Resp(500, "Internal Server Error", 0)
    ELSE IF fail = 1 THEN Resp(500, "Internal Server Error", 1)
    ELSE LET outs == SerializeBanners(banner)
         IN  IF outs.ok THEN Resp(200, outs.out, 1)
             ELSE Resp(500, "Internal Server Error", 1)

\* GET /api/banners ("if db" is read as "db is not None")
get_banners(fail) ==
    IF db = "none" THEN Resp(200, <<>>, 0)
    ELSE IF fail = 1 THEN Resp(500, "Internal Server Error", 1)
    ELSE LET outs == SerializeBanners(banner)
         IN  IF outs.ok THEN Resp(200, outs.out, 1)
             ELSE Resp(500, "Internal Server Error", 1)

\* POST /api/banners
create_banner(payload, fail) ==
    LET b == Banner(payload) IN
    IF ~b.ok THEN Resp(422, "validation error", 0)
    ELSE LET r == create_document(banner, b.rec, fail)
         IN  IF r.ok
             THEN [Resp(200, r.id, r.calls) EXCEPT !.banner = r.coll]
             ELSE Resp(500, "Internal Server Error", r.calls)

\* Query(24, ge=1, le=100)
LimitOk(limit) == limit.null \/ (limit.v >= LimitMin /\ limit.v <= LimitMax)

LimitOf(limit) == IF limit.null THEN LimitDefault ELSE limit.v

\* a Python str is truthy when it is not None and not empty
Truthy(x, empty) == ~x.null /\ x.v # empty

EqCond(name, x) == IF x.null THEN <<>> ELSE <<[k |-> name, c |-> [op |-> "eq", val |-> x.v]]>>

\* the filter dict of list_products (lines 125-139), as its list of entries
FilterEntries(p) ==
    (IF Truthy(p.category, "") THEN EqCond("category", p.category) ELSE <<>>)
    \o (IF Truthy(p.season, "") THEN EqCond("season", p.season) ELSE <<>>)
    \o EqCond("is_trending", p.trending)
    \o EqCond("is_new", p.new)
    \o EqCond("is_best_seller", p.best)
    \o EqCond("on_sale", p.sale)
    \o (IF Truthy(p.q, <<>>)
        THEN <<[k |-> "title", c |-> [op |-> "regex", pat |-> p.q.v]]>>
        ELSE <<>>)

BuildFilter(p) ==
    LET es == FilterEntries(p)
    IN  [k \in {es[i].k : i \in 1..Len(es)} |->
            (CHOOSE e \in {es[i] : i \in 1..Len(es)} : e.k = k).c]

\* mutant of list_products: the cursor is not limited
list_productsNoLimit(p, limit, fail) ==
    IF ~LimitOk(limit) THEN Resp(422, "validation error", 0)
    ELSE IF db = "none" THEN Resp(200, <<>>, 0)
    ELSE IF fail = 1 THEN Resp(500, "Internal Server Error", 1)
    ELSE LET docs == Find(product, BuildFilter(p))
             outs == SerializeProducts(docs)
         IN  IF outs.ok THEN Resp(200, outs.out, 1)
             ELSE Resp(500, "Internal Server Error", 1)

\* GET /api/products
list_products(p, limit, fail) ==
    IF ~LimitOk(limit) THEN Resp(422, "validation error", 0)
    ELSE IF db = "none" THEN Resp(200, <<>>, 0)
    ELSE IF fail = 1 THEN Resp(500, "Internal Server Error", 1)
    ELSE LET docs == Take(Find(product, BuildFilter(p)), LimitOf(limit))
             outs == SerializeProducts(docs)
         IN  IF outs.ok THEN Resp(200, outs.out, 1)
             ELSE Resp(500, "Internal Server Error", 1)

\* GET /api/products/{product_id}
get_product(product_id, fail) ==
    IF db = "none" THEN Resp(500, "Database not available", 0)
    ELSE LET oid == ObjectId(product_id) IN
         IF ~oid.ok THEN Resp(400, "Invalid product id", 0)
         ELSE IF fail = 1 THEN Resp(400, "Invalid product id", 1)
         ELSE LET doc == FindOne(product, oid.oid) IN
              IF doc.null THEN Resp(404, "Product not found", 1)
              ELSE LET o == serialize_product(doc.v)
                   IN  IF o.ok THEN Resp(200, o.out, 1)
                       ELSE Resp(500, "Internal Server Error", 1)

\* POST /api/products
create_product(payload, fail) ==
    LET p == Product(payload) IN
    IF ~p.ok THEN Resp(422, "validation error", 0)
    ELSE LET r == create_document(product, p.rec, fail)
         IN  IF r.ok
             THEN [Resp(200, r.id, r.calls) EXCEPT !.product = r.coll]
             ELSE Resp(500, "Internal Server Error", r.calls)

RECURSIVE InsertAll(_, _)
InsertAll(coll, docs) ==
    IF Len(docs) = 0 THEN coll
    ELSE InsertAll(InsertOne(coll, Head(docs)), Tail(docs))

\* mutant of SeedBlock: the documents are inserted whatever the count
SeedBlockNoCheck(coll, docs, base, fail) ==
    LET n == Len(docs)
        raised == fail > base /\ fail <= base + 1 + n
        created == IF ~raised THEN n
                   ELSE IF fail = base + 1 THEN 0 ELSE fail - base - 2
    IN  [raised |-> raised,
         created |-> created,
         calls |-> IF raised THEN fail ELSE base + 1 + n,
         coll |-> InsertAll(coll, Take(docs, created))]

\* one "if count_documents({}) == 0: for d in docs: insert_one(d); created += 1"
\* block of seed_data, entered after `base` storage calls
SeedBlock(coll, docs, base, fail) ==
    LET n == IF Len(coll) = 0 THEN Len(docs) ELSE 0
        raised == fail > base /\ fail <= base + 1 + n
        created == IF ~raised THEN n
                   ELSE IF fail = base + 1 THEN 0 ELSE fail - base - 2
    IN  [raised |-> raised,
         created |-> created,
         calls |-> IF raised THEN fail ELSE base + 1 + n,
         coll |-> InsertAll(coll, Take(docs, created))]

\* GET /api/seed
seed_data(fail) ==
    IF db = "none" THEN Resp(500, "Database not available", 0)
    ELSE LET b == SeedBlock(banner, SeedBanners, 0, fail) IN
         IF b.raised
         THEN [Resp(500, "Internal Server Error", b.calls) EXCEPT !.banner = b.coll]
         ELSE LET p == SeedBlock(product, SeedProducts, b.calls, fail) IN
              IF p.raised
              THEN [Resp(500, "Internal Server Error", p.calls)
                       EXCEPT !.banner = b.coll, !.product = p.coll]
              ELSE [Resp(200, [status |-> "ok", products |-> p.created,
                               banners |-> b.created], p.calls)
                       EXCEPT !.banner = b.coll, !.product = p.coll]

----------------------------------------------------------------------------
(* Requests *)

Tri == {NULL, V(TRUE), V(FALSE)}

NoParams ==
    [category |-> NULL, season |-> NULL, trending |-> NULL, new |-> NULL,
     best |-> NULL, sale |-> NULL, q |-> NULL]

\* query strings offered to list_products in Spec
SmallParams ==
    [category : {NULL, V("Men")}, season : {NULL}, trending : {NULL},
     new : {NULL}, best : {NULL}, sale : {NULL}, q : {NULL, V(<<"t", "e", "e">>)}]

\* query strings offered to list_products in SpecFilter
AllParams ==
    [category : {NULL, V(""), V("Men"), V("Kids")},
     season : {NULL, V("Summer")},
     trending : Tri, new : Tri, best : Tri, sale : Tri,
     q : {NULL, V(<<>>), V(<<"t", "e", "e">>), V(<<"S", "u", "m">>), V(<<".">>)}]

Limits == {NULL, V(-1), V(0), V(1), V(2), V(100), V(101)}

ProductIds == {Hex24(n) : n \in 1..(MaxProducts + 1)} \cup {Other("abc")}

PayloadTee == [title |-> V(<<"T", "e", "e">>), price |-> V(1000), category |-> V("Men")]

SmallPayloads ==
    {PayloadTee, [PayloadTee EXCEPT !.price = V(-1)], [title |-> V(<<"T", "e", "e">>)]}

BannerPayloads ==
    {[title |-> V("Eid"), slug |-> V("eid")], [title |-> V("Eid")]}

----------------------------------------------------------------------------
(* Sequential requests: one handler at a time *)

Idle == [pc |-> "idle", i |-> 0, banners |-> 0, products |-> 0]

NoRequest ==
    [op |-> "none", req |-> NULL, status |-> 0, body |-> NULL, calls |-> 0,
     preB |-> 0, preP |-> 0, seededBefore |-> 0]

Init ==
    /\ db \in {"up", "none"}
    /\ banner = <<>>
    /\ product = <<>>
    /\ last = NoRequest
    /\ seeded = 0
    /\ input = NULL
    /\ workers = [w \in 1..NumWorkers |-> Idle]

\* a request served to completion: r is the handler's result
Serve(op, req, r) ==
    /\ last' = [op |-> op, req |-> req, status |-> r.status, body |-> r.body,
                calls |-> r.calls, preB |-> Len(banner), preP |-> Len(product),
                seededBefore |-> seeded]
    /\ banner' = r.banner
    /\ product' = r.product
    /\ seeded' = IF op = "seed_data" /\ r.status = 200 /\ seeded < MaxSeeded
                 THEN seeded + 1 ELSE seeded
    /\ UNCHANGED <<db, input, workers>>

GetBanners ==
    \E fail \in 0..1 : Serve("get_banners", [fail |-> fail], get_banners(fail))

CreateBanner ==
    /\ Len(banner) < MaxBanners
    /\ \E payload \in BannerPayloads, fail \in 0..1 :
           Serve("create_banner", [payload |-> payload, fail |-> fail],
                 create_banner(payload, fail))

ListProductsOver(params, limits, fails) ==
    \E p \in params, limit \in limits, fail \in fails :
        Serve("list_products", [p |-> p, limit |-> limit, fail |-> fail],
              list_products(p, limit, fail))

ListProducts == ListProductsOver(SmallParams, Limits, 0..1)

GetProduct ==
    \E id \in ProductIds, fail \in 0..1 :
        Serve("get_product", [id |-> id, fail |-> fail], get_product(id, fail))

CreateProductOver(payloads, fails) ==
    /\ Len(product) < MaxProducts
    /\ \E payload \in payloads, fail \in fails :
           Serve("create_product", [payload |-> payload, fail |-> fail],
                 create_product(payload, fail))

CreateProduct == CreateProductOver(SmallPayloads, 0..1)

\* at most 2 count_documents and Len(SeedBanners) + Len(SeedProducts) inserts
SeedCalls == 2 + Len(SeedBanners) + Len(SeedProducts)

SeedData ==
    \E fail \in 0..SeedCalls : Serve("seed_data", [fail |-> fail], seed_data(fail))

Next ==
    \/ GetBanners
    \/ CreateBanner
    \/ ListProducts
    \/ GetProduct
    \/ CreateProduct
    \/ SeedData

Spec == Init /\ [][Next]_vars

----------------------------------------------------------------------------
(* list_products as a function of the query string and the store *)

TeeRec == Product(PayloadTee).rec

\* stores the sequential requests of Spec reach (seed, then one create;
\* one create alone)
FilterStores ==
    {InsertAll(<<>>, SeedProducts),
     InsertAll(<<>>, SeedProducts \o <<TeeRec>>),
     InsertAll(<<>>, <<TeeRec>>)}

FilterLimits == {NULL, V(1), V(2)}

InitFilter ==
    /\ db = "up"
    /\ banner = <<>>
    /\ product \in FilterStores
    /\ last = NoRequest
    /\ seeded = 0
    /\ input \in [p : AllParams, limit : FilterLimits]
    /\ workers = [w \in 1..NumWorkers |-> Idle]

ApplyListProducts ==
    /\ last = NoRequest
    /\ Serve("list_products", [p |-> input.p, limit |-> input.limit, fail |-> 0],
             list_products(input.p, input.limit, 0))

NextFilter == ApplyListProducts

SpecFilter == InitFilter /\ [][NextFilter]_vars

----------------------------------------------------------------------------
(* serialize_product as a function of the stored document *)

LegacyValues ==
    [description |-> V("d"), price |-> V(1500), images |-> V(<<"u">>),
     sizes |-> V(<<"M">>), in_stock |-> V(FALSE), is_trending |-> V(TRUE),
     is_new |-> V(TRUE), is_best_seller |-> V(TRUE), season |-> V("Winter"),
     on_sale |-> V(TRUE), sale_price |-> V(500)]

\* a stored product with _id, title and category, each other field absent,
\* null or a value of its declared type, as shape[field] says
LegacyDoc(shape) ==
    [k \in {"_id", "title", "category"} \cup {f \in OptionalFields : shape[f] # "absent"} |->
        IF k = "_id" THEN V(1)
        ELSE IF k = "title" THEN V(<<"T", "e", "e">>)
        ELSE IF k = "category" THEN V("Men")
        ELSE IF shape[k] = "null" THEN NULL
        ELSE LegacyValues[k]]

InitSerialize ==
    /\ db = "up"
    /\ banner = <<>>
    /\ input \in [OptionalFields -> {"absent", "null", "value"}]
    /\ product = <<LegacyDoc(input)>>
    /\ last = NoRequest
    /\ seeded = 0
    /\ workers = [w \in 1..NumWorkers |-> Idle]

ReadStored ==
    /\ last = NoRequest
    /\ Serve("get_product", [id |-> Hex24(1), fail |-> 0], get_product(Hex24(1), 0))

NextSerialize == ReadStored

SpecSerialize == InitSerialize /\ [][NextSerialize]_vars

----------------------------------------------------------------------------
(* create_product followed by a read of the created product *)

ABSENT == [absent |-> TRUE]

PayloadChoices ==
    [description : {ABSENT, NULL, V("d")},
     images : {ABSENT, V(<<"u">>)},
     sizes : {ABSENT, V(<<>>), V(<<"M">>)},
     in_stock : {ABSENT, V(TRUE), V(FALSE)},
     is_trending : {ABSENT, V(TRUE)},
     is_new : {ABSENT, V(TRUE)},
     is_best_seller : {ABSENT, V(TRUE)},
     season : {ABSENT, V("Winter")},
     on_sale : {ABSENT, V(TRUE)},
     sale_price : {ABSENT, NULL, V(0), V(500)}]

PayloadOf(c) ==
    [k \in ProductRequired \cup {f \in DOMAIN c : c[f] # ABSENT} |->
        IF k \in DOMAIN c THEN c[k] ELSE PayloadTee[k]]

AllPayloads ==
    {PayloadOf(c) : c \in PayloadChoices}
    \cup SmallPayloads
    \cup {[PayloadTee EXCEPT !.price = V(0)],
          PayloadOf([c \in DOMAIN ProductDefaults |->
                        IF c = "in_stock" THEN NULL ELSE ABSENT]),
          PayloadOf([c \in DOMAIN ProductDefaults |->
                        IF c = "sale_price" THEN V(-1) ELSE ABSENT])}

InitCreate ==
    /\ db = "up"
    /\ banner = <<>>
    /\ product = <<>>
    /\ last = NoRequest
    /\ seeded = 0
    /\ input \in AllPayloads
    /\ workers = [w \in 1..NumWorkers |-> Idle]

CreateInput ==
    /\ last = NoRequest
    /\ Serve("create_product", [payload |-> input, fail |-> 0], create_product(input, 0))

ReadCreated ==
    /\ last.op = "create_product"
    /\ last.status = 200
    /\ Serve("get_product", [id |-> last.body, fail |-> 0], get_product(last.body, 0))

NextCreate == CreateInput \/ ReadCreated

SpecCreate == InitCreate /\ [][NextCreate]_vars

----------------------------------------------------------------------------
(* Concurrent /api/seed requests: FastAPI runs each def handler in a worker *)
(* thread; every storage call (count_documents, insert_one) is one step.   *)

InitConc ==
    /\ db = "up"
    /\ banner = <<>>
    /\ product = <<>>
    /\ last = NoRequest
    /\ seeded = 0
    /\ input = NULL
    /\ workers = [w \in 1..NumWorkers |-> Idle]

\* lines 162-165: db is not None; created = {"products": 0, "banners": 0}
SeedBegin(w) ==
    /\ workers[w].pc = "idle"
    /\ db = "up"
    /\ workers' = [workers EXCEPT ![w].pc = "count_banner"]
    /\ UNCHANGED <<db, banner, product, last, seeded, input>>

\* line 167
SeedCountBanners(w) ==
    /\ workers[w].pc = "count_banner"
    /\ workers' = [workers EXCEPT ![w] =
                      IF Len(banner) = 0
                      THEN [@ EXCEPT !.pc = "insert_banner", !.i = 1]
                      ELSE [@ EXCEPT !.pc = "count_product"]]
    /\ UNCHANGED <<db, banner, product, last, seeded, input>>

\* lines 188-190, one iteration
SeedInsertBanner(w) ==
    /\ workers[w].pc = "insert_banner"
    /\ banner' = InsertOne(banner, SeedBanners[workers[w].i])
    /\ workers' = [workers EXCEPT ![w] =
                      [@ EXCEPT !.banners = @ + 1,
                                !.i = @ + 1,
                                !.pc = IF workers[w].i = Len(SeedBanners)
                                       THEN "count_product" ELSE "insert_banner"]]
    /\ UNCHANGED <<db, product, last, seeded, input>>

\* line 192 (and line 248 when the collection is not empty)
SeedCountProducts(w) ==
    /\ workers[w].pc = "count_product"
    /\ workers' = [workers EXCEPT ![w] =
                      IF Len(product) = 0
                      THEN [@ EXCEPT !.pc = "insert_product", !.i = 1]
                      ELSE [@ EXCEPT !.pc = "done"]]
    /\ UNCHANGED <<db, banner, product, last, seeded, input>>

\* lines 244-246, one iteration (and line 248 after the last)
SeedInsertProduct(w) ==
    /\ workers[w].pc = "insert_product"
    /\ product' = InsertOne(product, SeedProducts[workers[w].i])
    /\ workers' = [workers EXCEPT ![w] =
                      [@ EXCEPT !.products = @ + 1,
                                !.i = @ + 1,
                                !.pc = IF workers[w].i = Len(SeedProducts)
                                       THEN "done" ELSE "insert_product"]]
    /\ UNCHANGED <<db, banner, last, seeded, input>>

NextConc ==
    \E w \in 1..NumWorkers :
        \/ SeedBegin(w)
        \/ SeedCountBanners(w)
        \/ SeedInsertBanner(w)
        \/ SeedCountProducts(w)
        \/ SeedInsertProduct(w)

SpecConc == InitConc /\ [][NextConc]_vars

----------------------------------------------------------------------------
(* Seed requests alone, each insert free to fail, on an initially empty store *)

NextSeed == SeedData

SpecSeed == Init /\ [][NextSeed]_vars

----------------------------------------------------------------------------
(* Claims *)

\* C1: sequential seeding is idempotent per collection.  A seed call leaves
\* a collection that held records when it was called as it found it; a seed
\* call that returns reports, per collection, 3 if the collection was empty
\* and 0 otherwise, and has inserted exactly that many; on an empty store it
\* leaves exactly the 3 seed banners and 3 seed products; and every call
\* after a seed call that returned reports 0/0.
C1_SeedIdempotent ==
    last.op = "seed_data" =>
        /\ last.preB # 0 => Len(banner) = last.preB
        /\ last.preP # 0 => Len(product) = last.preP
        /\ last.status = 200 =>
               /\ last.body.banners = (IF last.preB = 0 THEN 3 ELSE 0)
               /\ last.body.products = (IF last.preP = 0 THEN 3 ELSE 0)
               /\ Len(banner) = last.preB + last.body.banners
               /\ Len(product) = last.preP + last.body.products
               /\ last.preB = 0 =>
                      \A i \in 1..3 : \A k \in DOMAIN SeedBanners[i] :
                          banner[i][k] = SeedBanners[i][k]
               /\ last.preP = 0 =>
                      \A i \in 1..3 : \A k \in DOMAIN SeedProducts[i] :
                          product[i][k] = SeedProducts[i][k]
               /\ last.seededBefore > 0 =>
                      last.body.banners = 0 /\ last.body.products = 0

\* C1 witness: a second seed call returned 0/0 on the store the first one filled
C1_Witness ==
    /\ last.op = "seed_data"
    /\ last.status = 200
    /\ last.seededBefore = 1
    /\ last.body.banners = 0
    /\ last.body.products = 0
    /\ Len(banner) = 3
    /\ Len(product) = 3

\* C3: a list-products request whose limit is outside [1,100] is rejected
\* (422) without any storage call; one whose limit is n in [1,100], or
\* omitted (n = 24), is not rejected and returns at most n products.
C3_LimitValidated ==
    last.op = "list_products" =>
        LET limit == last.req.limit
            n == IF limit.null THEN 24 ELSE limit.v
        IN  IF n < 1 \/ n > 100
            THEN last.status = 422 /\ last.calls = 0
            ELSE /\ last.status # 422
                 /\ last.status = 200 => Len(last.body) <= n

\* C3 witness: limit=1 cut a result of a store holding more than one product
C3_Witness ==
    /\ last.op = "list_products"
    /\ last.status = 200
    /\ last.req.limit = V(1)
    /\ last.req.p = NoParams
    /\ Len(product) >= 2
    /\ Len(last.body) = 1

\* C7: without a store connection, list banners and list products (any filter
\* parameters, a valid limit) return an empty sequence with status 200,
\* product detail and seed fail with 500, and none makes a storage call.
C7_DegradedMode ==
    db = "none" =>
        /\ last.op = "get_banners" =>
               last.status = 200 /\ last.body = <<>> /\ last.calls = 0
        /\ last.op = "list_products" /\ last.status # 422 =>
               last.status = 200 /\ last.body = <<>> /\ last.calls = 0
        /\ last.op \in {"get_product", "seed_data"} =>
               last.status = 500 /\ last.calls = 0
        /\ banner = <<>> /\ product = <<>>

\* C7 witness: a filtered list request answered [] in degraded mode
C7_Witness ==
    /\ db = "none"
    /\ last.op = "list_products"
    /\ last.req.p.q # NULL
    /\ last.req.p.category # NULL
    /\ last.status = 200
    /\ last.body = <<>>

\* a query parameter constrains the result when it is given and not empty
Given(x, empty) == ~x.null /\ x.v # empty

\* C2: list products is sound and complete up to the cap.  Every returned
\* product equals each given parameter on category, season, is_trending,
\* is_new, is_best_seller, on_sale and its title contains q as a literal
\* substring, ignoring case; and when fewer than limit products are returned,
\* every stored product that meets all given constraints is in the result.
C2_FilterSoundComplete ==
    last.op = "list_products" /\ last.status = 200 =>
        LET p == last.req.p
            n == IF last.req.limit.null THEN 24 ELSE last.req.limit.v
            Meets(o) ==
                /\ Given(p.category, "") => o.category = p.category.v
                /\ Given(p.season, "") => o.season = p.season
                /\ ~p.trending.null => o.is_trending = p.trending.v
                /\ ~p.new.null => o.is_new = p.new.v
                /\ ~p.best.null => o.is_best_seller = p.best.v
                /\ ~p.sale.null => o.on_sale = p.sale.v
                /\ Given(p.q, <<>>) => ContainsCI(o.title, p.q.v)
        IN  /\ \A i \in 1..Len(last.body) : Meets(last.body[i])
            /\ Len(last.body) < n =>
                   \A j \in 1..Len(product) :
                       Meets(serialize_product(product[j]).out) =>
                           \E i \in 1..Len(last.body) :
                               last.body[i] = serialize_product(product[j]).out

\* C4: product detail maps its cases to distinct outcomes: 500 without a
\* store connection; 400 for a malformed identifier; for a well-formed
\* identifier of no stored product never 400, and 404 unless the request ends
\* in a server error; for a well-formed identifier of a stored product that
\* product's output representation.
C4_DetailOutcomes ==
    last.op = "get_product" =>
        LET id == last.req.id
            stored == {j \in 1..Len(product) : StrId(product[j]) = id}
        IN  /\ db = "none" => last.status = 500
            /\ db = "up" /\ id.kind # "hex24" => last.status = 400
            /\ db = "up" /\ id.kind = "hex24" /\ stored = {} =>
                   last.status # 400 /\ (last.status < 500 => last.status = 404)
            /\ db = "up" /\ id.kind = "hex24" /\ stored # {} =>
                   last.status # 400 /\ last.status # 404
                   /\ (last.status = 200 =>
                          \E j \in stored : last.body.id = id
                                            /\ last.body.title = product[j]["title"].v)

C6_SerializeTotal ==
    last.op = "get_product" =>
        LET empty(f) == input[f] \in {"absent", "null"}
        IN  /\ last.status = 200
            /\ empty("in_stock") => last.body.in_stock = TRUE
            /\ empty("is_trending") => last.body.is_trending = FALSE
            /\ empty("is_new") => last.body.is_new = FALSE
            /\ empty("is_best_seller") => last.body.is_best_seller = FALSE
            /\ empty("on_sale") => last.body.on_sale = FALSE
            /\ empty("sale_price") => last.body.sale_price = NULL

\* C8: a request (list banners, list products, product detail, seed) during
\* which a storage call raised, with the connection present, ends in a
\* server error (5xx).
C8_StorageErrorIs5xx ==
    /\ last.op \in {"get_banners", "list_products", "get_product", "seed_data"}
    /\ db = "up"
    /\ last.req.fail > 0
    /\ last.calls = last.req.fail
    => last.status >= 500

\* the records of coll that are seed records
SeedRecordsIn(coll, docs) ==
    {j \in 1..Len(coll) :
        \E i \in 1..Len(docs) :
            /\ DOMAIN coll[j] = DOMAIN docs[i] \cup {"_id"}
            /\ \A k \in DOMAIN docs[i] : coll[j][k] = docs[i][k]}

\* C9: seeding leaves no partial state: after any sequence of seed calls on
\* an initially empty store, inserts free to fail, each collection holds none
\* or all 3 of its seed records, and a seed call that ran without storage
\* failure leaves both collections with their 3 records.
C9_NoPartialSeed ==
    /\ Cardinality(SeedRecordsIn(banner, SeedBanners)) \in {0, 3}
    /\ Cardinality(SeedRecordsIn(product, SeedProducts)) \in {0, 3}
    /\ last.op = "seed_data" /\ last.status = 200 =>
           Len(banner) = 3 /\ Len(product) = 3

RECURSIVE SumOver(_, _)
SumOver(f, S) ==
    IF S = {} THEN 0
    ELSE LET w == CHOOSE x \in S : TRUE IN f[w] + SumOver(f, S \ {w})

\* C10: seeding is one-time under concurrency: when all concurrent seed
\* requests on an initially empty store have returned, each collection holds
\* exactly 3 records and the reported insert counts sum to 3 per collection.
C10_SeedOnceConcurrent ==
    (\A w \in 1..NumWorkers : workers[w].pc = "done") =>
        /\ Len(banner) = 3
        /\ Len(product) = 3
        /\ SumOver([w \in 1..NumWorkers |-> workers[w].banners], 1..NumWorkers) = 3
        /\ SumOver([w \in 1..NumWorkers |-> workers[w].products], 1..NumWorkers) = 3

====
